---- MODULE Spec2Model ----
(***************************************************************************)
(* Model of mbta/cleaning_agent_detection: src/main.py (main) and          *)
(* src/agent_lib.py (record model, explode, dedup, bucketing, export).     *)
(*                                                                         *)
(* Strings are sequences of one-character strings, so that the regular     *)
(* expressions and str methods of the source are computed, not assumed.    *)
(* A datetime is an integer number of seconds after an arbitrary origin;   *)
(* a timedelta's total_seconds() is the integer difference.                *)
(***************************************************************************)
EXTENDS Integers, Sequences, FiniteSets, TLC

VARIABLES
    pc,               \* position of the run
    alert_rows,       \* data[1:] of the Sensitics report (get_file_path)
    clean_rows,       \* data[1:] of the maintenance request file
    sense_data,       \* main: sense_data as returned by pull_sense_file
    sense_dt_min,
    sense_dt_max,
    sensor_locations, \* main: set of (zone, elevator) of the alerts
    exploded,         \* every record yielded by get_elevator_records in pull_clean_report_file
    clean_data,       \* main: clean_data as returned by pull_clean_report_file
    clean_dt_min,
    clean_dt_max,
    dt_min,
    dt_max,
    sense_dict,       \* main: sense_data after list_to_dict
    clean_dict,       \* main: clean_data after list_to_dict
    cursor,           \* number of alerts of sense_dict the loop of main has handled
    has_alert,        \* CleanRecord.has_alert of every exploded record, by object
    true_positive,    \* metrics.true_positive
    false_positive,   \* metrics.false_positive
    false_negative,   \* metrics.false_negative
    exported,         \* TRUE once export_metrics has saved a workbook
    yielded           \* list(get_elevator_records(record)) of the explode run

vars == <<pc, alert_rows, clean_rows, sense_data, sense_dt_min, sense_dt_max,
          sensor_locations, exploded, clean_data, clean_dt_min, clean_dt_max,
          dt_min, dt_max, sense_dict, clean_dict, cursor, has_alert,
          true_positive, false_positive, false_negative, exported, yielded>>

----------------------------------------------------------------------------
(* Bounds of the model *)

MaxAlerts == 2

MaxCleans == 2

MaxDedupLen == 3

MaxLocLen == 6

----------------------------------------------------------------------------
(* Characters and strings *)

Digits == {"0", "1", "2", "3", "4", "5", "6", "7", "8", "9"}

UpperCase == <<"A", "B", "C", "D", "E", "F", "G", "H", "I", "J", "K", "L", "M",
               "N", "O", "P", "Q", "R", "S", "T", "U", "V", "W", "X", "Y", "Z">>

LowerCase == <<"a", "b", "c", "d", "e", "f", "g", "h", "i", "j", "k", "l", "m",
               "n", "o", "p", "q", "r", "s", "t", "u", "v", "w", "x", "y", "z">>

Range(s) == {s[i] : i \in 1..Len(s)}

UpperSet == Range(UpperCase)

LowerSet == Range(LowerCase)

LowerOf == [c \in UpperSet |-> LowerCase[CHOOSE i \in 1..Len(UpperCase) : UpperCase[i] = c]]

\* \w of the re module, on the ASCII characters the model uses
IsWordChar(c) == c \in Digits \/ c \in UpperSet \/ c \in LowerSet \/ c = "_"

LowerChar(c) == IF c \in UpperSet THEN LowerOf[c] ELSE c

\* str.lower()
lower(s) == [i \in 1..Len(s) |-> LowerChar(s[i])]

\* sub in s
Contains(s, sub) ==
    \E i \in 1..(Len(s) - Len(sub) + 1) : SubSeq(s, i, i + Len(sub) - 1) = sub

RECURSIVE StripNonLetters(_)
\* re.sub(r"[\W\d]", "", s): drops every character that is no word character, and every digit
StripNonLetters(s) ==
    IF s = <<>> THEN <<>>
    ELSE IF IsWordChar(Head(s)) /\ Head(s) \notin Digits
         THEN <<Head(s)>> \o StripNonLetters(Tail(s))
         ELSE StripNonLetters(Tail(s))

ThreeDigitsAt(s, i) ==
    /\ i >= 1
    /\ i + 2 <= Len(s)
    /\ s[i] \in Digits /\ s[i + 1] \in Digits /\ s[i + 2] \in Digits

RECURSIVE FindAllFrom(_, _)
\* the start positions of re.findall(r"\d{3}", s), scanning from position i
FindAllFrom(s, i) ==
    IF i + 2 > Len(s) THEN <<>>
    ELSE IF ThreeDigitsAt(s, i) THEN <<i>> \o FindAllFrom(s, i + 3)
    ELSE FindAllFrom(s, i + 1)

\* MatchStarts, had the matches been allowed to overlap
MatchStartsOverlapping(s) ==
    SelectSeq([i \in 1..Len(s) |-> i], LAMBDA i : ThreeDigitsAt(s, i))

\* start positions of the matches of re.findall(r"\d{3}", s)
MatchStarts(s) == FindAllFrom(s, 1)

\* re.findall(r"\d{3}", s)
findall3(s) ==
    LET starts == MatchStarts(s)
    IN  [k \in 1..Len(starts) |-> SubSeq(s, starts[k], starts[k] + 2)]

RECURSIVE DigitRunEnd(_, _)
\* last position of the run of digits that holds position i
DigitRunEnd(s, i) ==
    IF i + 1 <= Len(s) /\ s[i + 1] \in Digits THEN DigitRunEnd(s, i + 1) ELSE i

\* re.search(r"\d{3,}", s): <<>> stands for None, else the matched text
search3plus(s) ==
    IF \E i \in 1..Len(s) : ThreeDigitsAt(s, i)
    THEN LET i == CHOOSE i \in 1..Len(s) :
                     ThreeDigitsAt(s, i) /\ \A j \in 1..(i - 1) : ~ThreeDigitsAt(s, j)
         IN  SubSeq(s, i, DigitRunEnd(s, i))
    ELSE <<>>

----------------------------------------------------------------------------
(* Record model *)

\* CleanRecord.clean_zone
clean_zone(zone) == lower(StripNonLetters(zone))

\* CleanRecord.__post_init__ (str_to_datetime returns at once: dt is a datetime)
CleanPostInit(r) == [r EXCEPT !.zone = clean_zone(r.zone)]

\* make_clean_record: row of the maintenance file -> CleanRecord.  `row` is
\* the row's number in the file; with `k` it stands for the object's identity.
make_clean_record(row, n) ==
    CleanPostInit([id |-> row.id, location |-> row.address, zone |-> row.zone,
                   title |-> row.title, dt |-> row.created,
                   elevator |-> <<>>, row |-> n, k |-> 0])

\* dataclasses.replace(record, elevator=e): a new object, __post_init__ runs again
replace_elevator(r, e, k) == CleanPostInit([r EXCEPT !.elevator = e, !.k = k])

\* list(get_elevator_records(record))
get_elevator_records(r) ==
    LET elevator_numbers == findall3(r.location)
    IN  [k \in 1..Len(elevator_numbers) |-> replace_elevator(r, elevator_numbers[k], k)]

downtowncrossing == <<"d", "o", "w", "n", "t", "o", "w", "n", "c", "r", "o", "s", "s", "i", "n", "g">>

\* AlertRecord.get_zone_from_location
get_zone_from_location(location) ==
    LET z == lower(StripNonLetters(location))
    IN  IF z = downtowncrossing THEN <<"d", "t", "x">> ELSE z

\* AlertRecord.get_elevator_from_location; <<>> stands for the TypeError raised
get_elevator_from_location(location) == search3plus(location)

\* make_alert_record: row of the sensor file -> AlertRecord; `row` stands for
\* the object's identity
make_alert_record(row, n) ==
    [dt |-> row.dt, location |-> row.location, id |-> row.id, status |-> row.status,
     zone |-> get_zone_from_location(row.location),
     elevator |-> get_elevator_from_location(row.location), row |-> n]

----------------------------------------------------------------------------
(* pull_sense_file *)

DedupSeconds == 360

clean == <<"c", "l", "e", "a", "n">>

\* is_repeat, had the test read time_diff >= 0
is_repeat_from_zero(record, last) ==
    LET time_diff == record.dt - last.dt
    IN  record.id = last.id /\ time_diff <= DedupSeconds /\ time_diff >= 0

\* the test of line 395: record is not included after new_data[-1]
is_repeat(record, last) ==
    LET time_diff == record.dt - last.dt
    IN  record.id = last.id /\ time_diff <= DedupSeconds /\ time_diff > 0

RECURSIVE dedup_loop(_, _, _)
\* the loop of lines 391-402 from data[i] on; st holds new_data, min_dt, max_dt
dedup_loop(data, i, st) ==
    IF i > Len(data) THEN st
    ELSE LET record == data[i]
             last == st.new_data[Len(st.new_data)]
         IN  IF is_repeat(record, last)
             THEN dedup_loop(data, i + 1, st)
             ELSE dedup_loop(data, i + 1,
                      [new_data |-> Append(st.new_data, record),
                       min_dt |-> IF record.dt < st.min_dt THEN record.dt ELSE st.min_dt,
                       max_dt |-> IF record.dt > st.max_dt THEN record.dt ELSE st.max_dt])

\* the records of line 383
alert_records(rows) == [n \in 1..Len(rows) |-> make_alert_record(rows[n], n)]

\* the records of line 386: limited to "cleaning" records
cleaning_alerts(rows) ==
    SelectSeq(alert_records(rows), LAMBDA record : Contains(lower(record.status), clean))

\* pull_sense_file on the rows of the file.  raised: an exception leaves the
\* function (TypeError of make_alert_record, IndexError of data[0])
pull_sense_file(rows) ==
    LET data == cleaning_alerts(rows)
        none == [raised |-> TRUE, new_data |-> <<>>, min_dt |-> 0, max_dt |-> 0]
    IN  IF \E n \in 1..Len(rows) : get_elevator_from_location(rows[n].location) = <<>>
        THEN none
        ELSE IF data = <<>>
        THEN none
        ELSE LET st == dedup_loop(data, 2,
                           [new_data |-> <<data[1]>>, min_dt |-> data[1].dt, max_dt |-> data[1].dt])
             IN  [raised |-> FALSE, new_data |-> st.new_data,
                  min_dt |-> st.min_dt, max_dt |-> st.max_dt]

----------------------------------------------------------------------------
(* pull_clean_report_file *)

\* datetime.datetime(year=3000, month=1, day=1), later than every datetime of a file
DatetimeYear3000 == 1000000

\* datetime.datetime(year=1, month=1, day=1), earlier than every datetime of a file
DatetimeYear1 == -1000000

RECURSIVE Flatten(_)
Flatten(ss) == IF ss = <<>> THEN <<>> ELSE Head(ss) \o Flatten(Tail(ss))

\* every new_record of the loops of lines 427-433, in order
explode_all(rows) ==
    Flatten([n \in 1..Len(rows) |-> get_elevator_records(make_clean_record(rows[n], n))])

\* the test of line 436
in_sensor_locations(new_record, locations) ==
    <<new_record.zone, new_record.elevator>> \in locations

RECURSIVE MinDt(_, _)
MinDt(records, m) ==
    IF records = <<>> THEN m
    ELSE MinDt(Tail(records), IF Head(records).dt < m THEN Head(records).dt ELSE m)

RECURSIVE MaxDt(_, _)
MaxDt(records, m) ==
    IF records = <<>> THEN m
    ELSE MaxDt(Tail(records), IF Head(records).dt > m THEN Head(records).dt ELSE m)

pull_clean_report_file(rows, locations) ==
    LET filtered_data == SelectSeq(explode_all(rows),
                                   LAMBDA r : in_sensor_locations(r, locations))
    IN  [filtered_data |-> filtered_data,
         min_dt |-> MinDt(filtered_data, DatetimeYear3000),
         max_dt |-> MaxDt(filtered_data, DatetimeYear1)]

----------------------------------------------------------------------------
(* list_to_dict.  A dict is the sequence of its items, in insertion order. *)

DictHas(d, key) == \E i \in 1..Len(d) : d[i].key = key

DictGet(d, key) == d[CHOOSE i \in 1..Len(d) : d[i].key = key].val

DictSet(d, key, val) ==
    IF DictHas(d, key)
    THEN [i \in 1..Len(d) |-> IF d[i].key = key THEN [key |-> key, val |-> val] ELSE d[i]]
    ELSE Append(d, [key |-> key, val |-> val])

\* outside_period, had the test looked at dt_max alone
outside_period_upper_only(record, lo, hi) == record.dt > hi

\* outside_period, had the test read `and`
outside_period_both(record, lo, hi) == record.dt < lo /\ record.dt > hi

\* the test of line 354
outside_period(record, lo, hi) == record.dt < lo \/ record.dt > hi

RECURSIVE group_records(_, _, _, _, _)
\* the loop of lines 353-360 from list_data[i] on
group_records(list_data, i, lo, hi, d) ==
    IF i > Len(list_data) THEN d
    ELSE LET record == list_data[i]
         IN  IF outside_period(record, lo, hi)
             THEN group_records(list_data, i + 1, lo, hi, d)
             ELSE LET d1 == IF DictHas(d, record.zone) THEN d ELSE DictSet(d, record.zone, <<>>)
                      z0 == DictGet(d1, record.zone)
                      z1 == IF DictHas(z0, record.elevator) THEN z0
                            ELSE DictSet(z0, record.elevator, <<>>)
                      z2 == DictSet(z1, record.elevator,
                                    Append(DictGet(z1, record.elevator), record))
                 IN  group_records(list_data, i + 1, lo, hi, DictSet(d1, record.zone, z2))

RECURSIVE insert_by_dt(_, _)
\* record put behind the last record of the sorted list s with dt <= record.dt
insert_by_dt(s, record) ==
    IF s = <<>> THEN <<record>>
    ELSE IF s[Len(s)].dt <= record.dt THEN Append(s, record)
    ELSE Append(insert_by_dt(SubSeq(s, 1, Len(s) - 1), record), s[Len(s)])

RECURSIVE sort_from(_, _, _)
sort_from(s, i, acc) ==
    IF i > Len(s) THEN acc ELSE sort_from(s, i + 1, insert_by_dt(acc, s[i]))

\* sorted_by_dt, had the lists been left in arrival order
unsorted(elevator_data) == elevator_data

\* sorted(elevator_data, key=lambda x: x.dt): ascending and stable
sorted_by_dt(elevator_data) == sort_from(elevator_data, 1, <<>>)

list_to_dict(list_data, lo, hi) ==
    LET d == group_records(list_data, 1, lo, hi, <<>>)
    IN  [i \in 1..Len(d) |->
            [key |-> d[i].key,
             val |-> [j \in 1..Len(d[i].val) |->
                         [key |-> d[i].val[j].key,
                          val |-> sorted_by_dt(d[i].val[j].val)]]]]

\* the records of a dict of dicts in the order the nested loops of main visit them
records_of(d) ==
    Flatten([i \in 1..Len(d) |-> Flatten([j \in 1..Len(d[i].val) |-> d[i].val[j].val])])

----------------------------------------------------------------------------
(* main *)

\* 60 * 60 of lines 32, 33, 50 and 56
HourSeconds == 60 * 60

\* in_detection_window, had the upper bound been exclusive
in_detection_window_exclusive(time_diff) == time_diff >= 0 /\ time_diff < HourSeconds

\* the test of line 50
in_detection_window(time_diff) == time_diff >= 0 /\ time_diff <= HourSeconds

\* the test of line 56
past_detection_window(time_diff) == time_diff > HourSeconds

\* line 32
overlap_min(s_min, c_min) == (IF s_min > c_min THEN s_min ELSE c_min) - HourSeconds

\* line 33
overlap_max(s_max, c_max) == (IF s_max < c_max THEN s_max ELSE c_max) + HourSeconds

\* the object a record of the maintenance data is
Obj(clean_record) == <<clean_record.row, clean_record.k>>

\* no_match_yet, had every record within the window been paired
always_pair(match_found) == TRUE

\* the test of line 53
no_match_yet(match_found) == match_found = FALSE

RECURSIVE scan_stop_at_first_match(_, _, _, _)
\* the loop leaving at its first match: flags and pairs one record only
scan_stop_at_first_match(record, candidates, j, st) ==
    IF j > Len(candidates) THEN st
    ELSE LET clean_record == candidates[j]
             time_diff == clean_record.dt - record.dt
         IN  IF in_detection_window(time_diff)
             THEN [match_found |-> TRUE,
                   tagged |-> st.tagged \cup {Obj(clean_record)},
                   pairs |-> Append(st.pairs, <<record, clean_record>>)]
             ELSE IF past_detection_window(time_diff)
             THEN st
             ELSE scan_stop_at_first_match(record, candidates, j + 1, st)

RECURSIVE scan(_, _, _, _)
\* the loop of lines 48-57 for the alert `record`, from candidates[j] on.
\* st: match_found, the objects whose has_alert was set, the pairs appended
scan(record, candidates, j, st) ==
    IF j > Len(candidates) THEN st
    ELSE LET clean_record == candidates[j]
             time_diff == clean_record.dt - record.dt
         IN  IF in_detection_window(time_diff)
             THEN scan(record, candidates, j + 1,
                       [match_found |-> TRUE,
                        tagged |-> st.tagged \cup {Obj(clean_record)},
                        pairs |-> IF no_match_yet(st.match_found)
                                  THEN Append(st.pairs, <<record, clean_record>>)
                                  ELSE st.pairs])
             ELSE IF past_detection_window(time_diff)
             THEN st
             ELSE scan(record, candidates, j + 1, st)

\* clean_data[zone][elevator] raises KeyError
lookup_fails(d, zone, elevator) ==
    ~DictHas(d, zone) \/ ~DictHas(DictGet(d, zone), elevator)

\* exception_caught, had the try statement had no except clause
exception_propagates == FALSE

\* line 59: the except clause catches the exception of the lookup
exception_caught == TRUE

\* lines 46-62 for one alert: what the try statement leaves behind
correlate(record, d) ==
    LET none == [match_found |-> FALSE, tagged |-> {}, pairs |-> <<>>]
    IN  IF lookup_fails(d, record.zone, record.elevator)
        THEN none
        ELSE scan(record, DictGet(DictGet(d, record.zone), record.elevator), 1, none)

\* unalerted, had the sweep not looked at has_alert
unalerted_or_not(d, flags) == records_of(d)

\* lines 65-69
unalerted(d, flags) == SelectSeq(records_of(d), LAMBDA record : flags[Obj(record)] = FALSE)

\* the test of line 459
nothing_to_export(tp, fn, fp) == Len(tp) + Len(fn) + Len(fp) = 0

----------------------------------------------------------------------------
(* The files a run reads *)

SeqsUpTo(S, n) == UNION {[1..m -> S] : m \in 0..n}

Cleaning == <<"C", "l", "e", "a", "n", "i", "n", "g">>

Offline == <<"O", "f", "f">>

A101 == <<"A", " ", "1", "0", "1">>

A102 == <<"A", " ", "1", "0", "2">>

B101 == <<"B", " ", "1", "0", "1">>

AlertRow(t, l, i, s) == [dt |-> t, location |-> l, id |-> i, status |-> s]

\* the rows a sensor file of the main runs is made of
AlertRowSet ==
    {AlertRow(0, A101, "i1", Cleaning), AlertRow(300, A101, "i1", Cleaning),
     AlertRow(300, A102, "i1", Cleaning), AlertRow(0, B101, "i1", Cleaning),
     AlertRow(0, A101, "i1", Offline)}

CleanRow(z, a, t) == [id |-> "m", title |-> "t", address |-> a, zone |-> z, created |-> t]

Elev101 == <<"1", "0", "1">>

Elev101and102 == <<"1", "0", "1", " ", "1", "0", "2">>

\* the rows a maintenance file of the main runs is made of
CleanRowSet ==
    {CleanRow(<<"A">>, Elev101, -100), CleanRow(<<"A">>, Elev101, 0),
     CleanRow(<<"A">>, Elev101, 3601), CleanRow(<<"A">>, Elev101, 3900),
     CleanRow(<<"A">>, Elev101, 7600),
     CleanRow(<<"A">>, Elev101and102, 3900), CleanRow(<<"B", "1">>, <<"E", "1", "0", "1">>, 0)}

\* the rows a sensor file of the deduplication runs is made of
DedupTimes == {0, 300, 360, 361, 400}

DedupRowSet ==
    {AlertRow(t, A101, i, Cleaning) : t \in DedupTimes, i \in {"i1", "i2"}}
    \cup {AlertRow(300, A101, "i1", Offline)}

\* the Address of the maintenance row of an explode run
LocationAlphabet == {"1", "2", "x"}

ElevatorsExample ==
    <<"E", "l", "e", "v", "a", "t", "o", "r", "s", " ", "1", "0", "1", " ",
      "a", "n", "d", " ", "1", "0", "2">>

LocationSet == SeqsUpTo(LocationAlphabet, MaxLocLen) \cup {ElevatorsExample}

InitRun ==
    /\ sense_data = <<>> /\ sense_dt_min = 0 /\ sense_dt_max = 0
    /\ sensor_locations = {}
    /\ exploded = <<>> /\ clean_data = <<>> /\ clean_dt_min = 0 /\ clean_dt_max = 0
    /\ dt_min = 0 /\ dt_max = 0
    /\ sense_dict = <<>> /\ clean_dict = <<>>
    /\ cursor = 0
    /\ has_alert = <<>>
    /\ true_positive = <<>> /\ false_positive = <<>> /\ false_negative = <<>>
    /\ exported = FALSE
    /\ yielded = <<>>

Init ==
    /\ pc = "start"
    /\ alert_rows \in SeqsUpTo(AlertRowSet, MaxAlerts)
    /\ clean_rows \in SeqsUpTo(CleanRowSet, MaxCleans)
    /\ InitRun

----------------------------------------------------------------------------
(* The steps of a run *)

\* main, lines 17-24
PullSense ==
    /\ pc = "start"
    /\ \E r \in {pull_sense_file(alert_rows)} :
           IF r.raised
           THEN /\ pc' = "crashed"
                /\ UNCHANGED <<sense_data, sense_dt_min, sense_dt_max, sensor_locations>>
           ELSE /\ sense_data' = r.new_data
                /\ sense_dt_min' = r.min_dt
                /\ sense_dt_max' = r.max_dt
                /\ IF Len(r.new_data) = 0
                   THEN pc' = "returned" /\ UNCHANGED sensor_locations
                   ELSE /\ pc' = "sensed"
                        /\ sensor_locations' =
                               {<<r.new_data[i].zone, r.new_data[i].elevator>> :
                                   i \in 1..Len(r.new_data)}
    /\ UNCHANGED <<alert_rows, clean_rows, exploded, clean_data, clean_dt_min,
                   clean_dt_max, dt_min, dt_max, sense_dict, clean_dict, cursor,
                   has_alert, true_positive, false_positive, false_negative,
                   exported, yielded>>

\* main, lines 26-29
PullClean ==
    /\ pc = "sensed"
    /\ \E r \in {pull_clean_report_file(clean_rows, sensor_locations)},
          all \in {explode_all(clean_rows)} :
           /\ exploded' = all
           /\ has_alert' = [o \in {Obj(all[i]) : i \in 1..Len(all)} |-> FALSE]
           /\ clean_data' = r.filtered_data
           /\ clean_dt_min' = r.min_dt
           /\ clean_dt_max' = r.max_dt
           /\ pc' = IF Len(r.filtered_data) = 0 THEN "returned" ELSE "loaded"
    /\ UNCHANGED <<alert_rows, clean_rows, sense_data, sense_dt_min, sense_dt_max,
                   sensor_locations, dt_min, dt_max, sense_dict, clean_dict, cursor,
                   true_positive, false_positive, false_negative, exported, yielded>>

\* main, lines 31-40
Bucketize ==
    /\ pc = "loaded"
    /\ dt_min' = overlap_min(sense_dt_min, clean_dt_min)
    /\ dt_max' = overlap_max(sense_dt_max, clean_dt_max)
    /\ sense_dict' = list_to_dict(sense_data, dt_min', dt_max')
    /\ clean_dict' = list_to_dict(clean_data, dt_min', dt_max')
    /\ cursor' = 0
    /\ pc' = "correlate"
    /\ UNCHANGED <<alert_rows, clean_rows, sense_data, sense_dt_min, sense_dt_max,
                   sensor_locations, exploded, clean_data, clean_dt_min, clean_dt_max,
                   has_alert, true_positive, false_positive, false_negative,
                   exported, yielded>>

\* main, lines 45-62: one pass of the loop over the alerts
CorrelateAlert ==
    /\ pc = "correlate"
    /\ cursor < Len(records_of(sense_dict))
    /\ \E record \in {records_of(sense_dict)[cursor + 1]} :
       \E r \in {correlate(record, clean_dict)} :
           IF lookup_fails(clean_dict, record.zone, record.elevator) /\ ~exception_caught
           THEN /\ pc' = "crashed"
                /\ UNCHANGED <<cursor, has_alert, true_positive, false_positive>>
           ELSE /\ has_alert' = [o \in DOMAIN has_alert |->
                                    IF o \in r.tagged THEN TRUE ELSE has_alert[o]]
                /\ true_positive' = true_positive \o r.pairs
                /\ false_positive' = IF r.match_found = FALSE
                                     THEN Append(false_positive, record)
                                     ELSE false_positive
                /\ cursor' = cursor + 1
                /\ pc' = pc
    /\ UNCHANGED <<alert_rows, clean_rows, sense_data, sense_dt_min, sense_dt_max,
                   sensor_locations, exploded, clean_data, clean_dt_min, clean_dt_max,
                   dt_min, dt_max, sense_dict, clean_dict, false_negative,
                   exported, yielded>>

\* main, lines 64-71
Sweep ==
    /\ pc = "correlate"
    /\ cursor = Len(records_of(sense_dict))
    /\ false_negative' = false_negative \o unalerted(clean_dict, has_alert)
    /\ pc' = "returned"
    /\ UNCHANGED <<alert_rows, clean_rows, sense_data, sense_dt_min, sense_dt_max,
                   sensor_locations, exploded, clean_data, clean_dt_min, clean_dt_max,
                   dt_min, dt_max, sense_dict, clean_dict, cursor, has_alert,
                   true_positive, false_positive, exported, yielded>>

\* export_metrics(metrics) on what main returned
ExportMetrics ==
    /\ pc = "returned"
    /\ exported' = ~nothing_to_export(true_positive, false_negative, false_positive)
    /\ pc' = "exported"
    /\ UNCHANGED <<alert_rows, clean_rows, sense_data, sense_dt_min, sense_dt_max,
                   sensor_locations, exploded, clean_data, clean_dt_min, clean_dt_max,
                   dt_min, dt_max, sense_dict, clean_dict, cursor, has_alert,
                   true_positive, false_positive, false_negative, yielded>>

Next ==
    \/ PullSense
    \/ PullClean
    \/ Bucketize
    \/ CorrelateAlert
    \/ Sweep
    \/ ExportMetrics

Spec == Init /\ [][Next]_vars

----------------------------------------------------------------------------
(* Runs of pull_sense_file alone, on files that exercise the deduplication *)

InitDedup ==
    /\ pc = "start"
    /\ alert_rows \in SeqsUpTo(DedupRowSet, MaxDedupLen)
    /\ clean_rows = <<>>
    /\ InitRun

SpecDedup == InitDedup /\ [][PullSense]_vars

----------------------------------------------------------------------------
(* Runs of get_elevator_records alone, on one maintenance record *)

InitExplode ==
    /\ pc = "explode"
    /\ alert_rows = <<>>
    /\ clean_rows \in {<<CleanRow(<<"A">>, a, 0)>> : a \in LocationSet}
    /\ InitRun

ExplodeRecord ==
    /\ pc = "explode"
    /\ yielded' = get_elevator_records(make_clean_record(clean_rows[1], 1))
    /\ pc' = "exploded"
    /\ UNCHANGED <<alert_rows, clean_rows, sense_data, sense_dt_min, sense_dt_max,
                   sensor_locations, exploded, clean_data, clean_dt_min, clean_dt_max,
                   dt_min, dt_max, sense_dict, clean_dict, cursor, has_alert,
                   true_positive, false_positive, false_negative, exported>>

SpecExplode == InitExplode /\ [][ExplodeRecord]_vars

----------------------------------------------------------------------------
(* Vocabulary of the properties *)

\* main has returned its metrics
Returned == pc \in {"returned", "exported"}

\* main has returned after running both loops (neither early return was taken)
Correlated == Returned /\ Len(sense_data) > 0 /\ Len(clean_data) > 0

InPeriod(record) == record.dt >= dt_min /\ record.dt <= dt_max

\* the alerts main has bucketed, in the order its loop visits them
BucketedAlerts == records_of(sense_dict)

\* the maintenance bucket of a (zone, elevator); empty when a key is absent
Bucket(zone, elevator) ==
    IF DictHas(clean_dict, zone) /\ DictHas(DictGet(clean_dict, zone), elevator)
    THEN DictGet(DictGet(clean_dict, zone), elevator)
    ELSE <<>>

PairsOf(alert) == {i \in 1..Len(true_positive) : true_positive[i][1] = alert}

TimesIn(list, x) == Cardinality({i \in 1..Len(list) : list[i] = x})

Delta(clean_record, alert) == clean_record.dt - alert.dt

----------------------------------------------------------------------------
(* C1 *)

\* C1 as stated, for the runs in which main reaches its loops: when main has
\* returned, the matched pairs and the false positives together are as many
\* as the alerts pull_sense_file kept, each kept alert being in exactly one
\* pair or once in the false positives.
C1_EveryKeptAlertClassified ==
    Correlated =>
        /\ Len(true_positive) + Len(false_positive) = Len(sense_data)
        /\ \A i \in 1..Len(sense_data) :
               Cardinality(PairsOf(sense_data[i])) + TimesIn(false_positive, sense_data[i]) = 1

\* C1, amended: when main has returned after both loops, the matched pairs and
\* the false positives together are as many as the kept alerts whose time lies
\* in [dt_min, dt_max]; each of those is in exactly one pair or once in the
\* false positives, and a kept alert outside the period is in neither.
C1_EveryAlertInPeriodClassified ==
    Correlated =>
        /\ Len(true_positive) + Len(false_positive) =
               Cardinality({i \in 1..Len(sense_data) : InPeriod(sense_data[i])})
        /\ \A i \in 1..Len(sense_data) :
               Cardinality(PairsOf(sense_data[i])) + TimesIn(false_positive, sense_data[i])
                   = IF InPeriod(sense_data[i]) THEN 1 ELSE 0

\* a run that classified one kept alert and left another, outside the period, out
C1_Witness ==
    /\ Correlated
    /\ \E i \in 1..Len(sense_data) : ~InPeriod(sense_data[i])
    /\ \E i \in 1..Len(sense_data) :
           InPeriod(sense_data[i]) /\ PairsOf(sense_data[i]) # {}

----------------------------------------------------------------------------
(* C2 *)

\* C2 as stated: when main has returned, no maintenance record is the second
\* component of two pairs of true_positive and no alert is the first component
\* of two.
C2_AtMostOnePairEach ==
    Returned =>
        \A i, j \in 1..Len(true_positive) :
            i # j => /\ true_positive[i][2] # true_positive[j][2]
                     /\ true_positive[i][1] # true_positive[j][1]

\* C2, amended: no alert is in more than one pair; two pairs may share their
\* maintenance record, and then they belong to two alerts of that record's
\* (zone, elevator) that both have it within their 3600-second window.
C2_AtMostOnePairPerAlert ==
    \A i, j \in 1..Len(true_positive) :
        i # j =>
            /\ true_positive[i][1] # true_positive[j][1]
            /\ true_positive[i][2] = true_positive[j][2] =>
                   \A n \in {i, j} :
                       /\ true_positive[n][1].zone = true_positive[n][2].zone
                       /\ true_positive[n][1].elevator = true_positive[n][2].elevator
                       /\ Delta(true_positive[n][2], true_positive[n][1]) >= 0
                       /\ Delta(true_positive[n][2], true_positive[n][1]) <= 3600

\* a run in which two alerts were paired with the same maintenance record
C2_Witness ==
    /\ Returned
    /\ \E i, j \in 1..Len(true_positive) :
           /\ i # j
           /\ true_positive[i][2] = true_positive[j][2]
           /\ true_positive[i][1] # true_positive[j][1]

----------------------------------------------------------------------------
(* C3 *)

InFalseNegative(clean_record) == TimesIn(false_negative, clean_record) > 0

\* C3 as stated, for the runs in which main reaches its loops: when main has
\* returned, every record the explode step produced either has has_alert set
\* or is in false_negative, never both and never neither.
C3_EveryExplodedRecordClassified ==
    Correlated =>
        \A i \in 1..Len(exploded) :
            has_alert[Obj(exploded[i])] # InFalseNegative(exploded[i])

\* C3, amended: when main has returned after both loops, every record of the
\* explode step whose (zone, elevator) is one of the alerts' and whose time
\* lies in [dt_min, dt_max] either has has_alert set or is once in
\* false_negative, never both and never neither; every other record of the
\* explode step has no has_alert and is not in false_negative.
C3_EveryBucketedRecordClassified ==
    Correlated =>
        \A i \in 1..Len(exploded) :
            LET r == exploded[i]
            IN  IF <<r.zone, r.elevator>> \in sensor_locations /\ InPeriod(r)
                THEN /\ has_alert[Obj(r)] # InFalseNegative(r)
                     /\ TimesIn(false_negative, r) <= 1
                ELSE ~has_alert[Obj(r)] /\ ~InFalseNegative(r)

\* a run with a matched record, a false negative and a record left out
C3_Witness ==
    /\ Correlated
    /\ \E i \in 1..Len(exploded) : has_alert[Obj(exploded[i])]
    /\ \E i \in 1..Len(exploded) :
           ~has_alert[Obj(exploded[i])] /\ ~InFalseNegative(exploded[i])

----------------------------------------------------------------------------
(* C4 *)

\* the maintenance bucket of the alert's (zone, elevator) holds a record at
\* 0 to 3600 seconds after the alert, both included
HasRecordInWindow(alert) ==
    \E j \in 1..Len(Bucket(alert.zone, alert.elevator)) :
        /\ Delta(Bucket(alert.zone, alert.elevator)[j], alert) >= 0
        /\ Delta(Bucket(alert.zone, alert.elevator)[j], alert) <= 3600

\* C4: once the loop of main has handled a bucketed alert, the alert is in a
\* pair of true_positive if and only if the maintenance bucket of its (zone,
\* elevator) holds a record with 0 <= cleaning.time - alert.time <= 3600, and
\* it is in false_positive if and only if the bucket holds none.
C4_TruePositiveIffRecordInWindow ==
    pc \in {"correlate", "returned", "exported"} =>
        \A n \in 1..cursor :
            LET alert == BucketedAlerts[n]
            IN  /\ (PairsOf(alert) # {}) = HasRecordInWindow(alert)
                /\ (TimesIn(false_positive, alert) > 0) = ~HasRecordInWindow(alert)

\* a run with a pair at exactly 0 seconds, a pair at exactly 3600 seconds
C4_Witness ==
    /\ Correlated
    /\ \E i \in 1..Len(true_positive) : Delta(true_positive[i][2], true_positive[i][1]) = 0
    /\ \E i \in 1..Len(true_positive) : Delta(true_positive[i][2], true_positive[i][1]) = 3600

\* a run with a false positive whose bucket holds a record at 3601 seconds
\* and one before the alert
C4_WitnessOutside ==
    /\ Correlated
    /\ \E i \in 1..Len(false_positive) :
           LET b == Bucket(false_positive[i].zone, false_positive[i].elevator)
           IN  /\ \E j \in 1..Len(b) : Delta(b[j], false_positive[i]) = 3601
               /\ \E j \in 1..Len(b) : Delta(b[j], false_positive[i]) < 0

----------------------------------------------------------------------------
(* C5 *)

\* position j of the bucket holds the first record within the alert's window
FirstInWindow(b, j, alert) ==
    /\ Delta(b[j], alert) >= 0
    /\ Delta(b[j], alert) <= 3600
    /\ \A m \in 1..Len(b) :
           (Delta(b[m], alert) >= 0 /\ Delta(b[m], alert) <= 3600) =>
               /\ b[j].dt <= b[m].dt
               /\ j <= m

\* C5: the maintenance record paired with an alert is the earliest record of
\* the bucket of the alert's (zone, elevator) with 0 <= delta <= 3600 (the
\* first of them in the bucket), whatever records with a negative delta stand
\* before it; and an alert the loop has handled whose bucket holds a record
\* within the window has a pair: no scan stopped before such a record.
C5_PairedWithEarliestInWindow ==
    /\ \A i \in 1..Len(true_positive) :
           LET alert == true_positive[i][1]
               b == Bucket(alert.zone, alert.elevator)
           IN  \E j \in 1..Len(b) :
                   b[j] = true_positive[i][2] /\ FirstInWindow(b, j, alert)
    /\ pc \in {"correlate", "returned", "exported"} =>
           \A n \in 1..cursor :
               HasRecordInWindow(BucketedAlerts[n]) => PairsOf(BucketedAlerts[n]) # {}

\* a run in which an alert whose scan stopped at a record past its window is
\* followed, in the same bucket, by an alert paired with that very record,
\* with a record of negative delta before it
C5_Witness ==
    /\ Correlated
    /\ \E i \in 1..Len(true_positive), n \in 1..Len(false_positive) :
           LET alert == true_positive[i][1]
               b == Bucket(alert.zone, alert.elevator)
           IN  /\ false_positive[n].zone = alert.zone
               /\ false_positive[n].elevator = alert.elevator
               /\ false_positive[n].dt < alert.dt
               /\ Delta(true_positive[i][2], false_positive[n]) > 3600
               /\ \E j \in 1..Len(b) : Delta(b[j], alert) < 0

----------------------------------------------------------------------------
(* C6 *)

\* the rows of the sensor file whose status holds "clean", by row number
CleaningRows == {n \in 1..Len(alert_rows) : Contains(lower(alert_rows[n].status), clean)}

\* the rows of the sensor file pull_sense_file kept
KeptRows == {sense_data[j].row : j \in 1..Len(sense_data)}

\* the last row kept before row n; 0 when there is none
LastKeptBefore(n) ==
    IF \E k \in KeptRows : k < n
    THEN CHOOSE k \in KeptRows : k < n /\ \A m \in KeptRows : m < n => m <= k
    ELSE 0

\* C6: pull_sense_file keeps the cleaning alerts in arrival order, unchanged,
\* and drops alert a exactly when the last alert kept before it, k, has the
\* same id and 0 < a.time - k.time <= 360; so of two alerts of one id at T and
\* T + 300 only the first is kept, both are kept at T and T + 400, and an
\* alert at zero or negative elapsed time is kept.
C6_DropsExactlyRepeatsWithin360 ==
    pc \in {"sensed", "returned"} =>
        /\ \A j \in 1..Len(sense_data) :
               /\ sense_data[j].row \in CleaningRows
               /\ sense_data[j] = make_alert_record(alert_rows[sense_data[j].row], sense_data[j].row)
               /\ \A m \in 1..Len(sense_data) : j < m => sense_data[j].row < sense_data[m].row
        /\ \A n \in CleaningRows :
               LET k == LastKeptBefore(n)
               IN  (n \notin KeptRows) <=>
                       /\ k # 0
                       /\ alert_rows[n].id = alert_rows[k].id
                       /\ alert_rows[n].dt - alert_rows[k].dt > 0
                       /\ alert_rows[n].dt - alert_rows[k].dt <= 360
        /\ \A i \in {"i1", "i2"} :
               /\ alert_rows = <<AlertRow(0, A101, i, Cleaning), AlertRow(300, A101, i, Cleaning)>>
                      => KeptRows = {1}
               /\ alert_rows = <<AlertRow(0, A101, i, Cleaning), AlertRow(400, A101, i, Cleaning)>>
                      => KeptRows = {1, 2}
               /\ alert_rows = <<AlertRow(300, A101, i, Cleaning), AlertRow(300, A101, i, Cleaning),
                                 AlertRow(0, A101, i, Cleaning)>>
                      => KeptRows = {1, 2, 3}

\* a run that kept an alert at negative elapsed time and then dropped a repeat
\* of it, 300 seconds later, that stands at zero elapsed time from the first
C6_Witness ==
    /\ pc = "sensed"
    /\ alert_rows = <<AlertRow(300, A101, "i1", Cleaning), AlertRow(0, A101, "i1", Cleaning),
                      AlertRow(300, A101, "i1", Cleaning)>>
    /\ KeptRows = {1, 2}

----------------------------------------------------------------------------
(* C7 *)

\* the window main computes from the four datetimes is empty
WindowEmpty ==
    (IF sense_dt_min > clean_dt_min THEN sense_dt_min ELSE clean_dt_min) - 3600
        > (IF sense_dt_max < clean_dt_max THEN sense_dt_max ELSE clean_dt_max) + 3600

\* C7: when the window is empty, main goes through both loops without an
\* error and returns metrics with no pair, no false positive and no false
\* negative, and export_metrics saves nothing.
C7_EmptyWindowGivesEmptyMetrics ==
    (pc \in {"correlate", "returned", "exported"} /\ Len(clean_data) > 0 /\ WindowEmpty) =>
        /\ BucketedAlerts = <<>>
        /\ true_positive = <<>>
        /\ false_positive = <<>>
        /\ false_negative = <<>>
        /\ exported = FALSE

\* export_metrics has run on the metrics of a run whose window was empty
C7_Witness ==
    /\ pc = "exported"
    /\ Len(sense_data) > 0
    /\ Len(clean_data) > 0
    /\ WindowEmpty

----------------------------------------------------------------------------
(* C8 *)

\* C8: once pull_sense_file has run on a file no row of which is a cleaning
\* alert, or pull_clean_report_file has found no maintenance record, the run
\* has not crashed: main returns, and its three counts are zero.
C8_EmptyInputReturnsZeroCounts ==
    (\/ pc # "start" /\ CleaningRows = {}
     \/ pc \notin {"start", "sensed"} /\ Len(sense_data) > 0 /\ Len(clean_data) = 0) =>
        /\ Returned
        /\ Len(true_positive) = 0 /\ Len(false_positive) = 0 /\ Len(false_negative) = 0

\* the half of C8 the code keeps: no maintenance record left, zero counts
C8_NoMaintenanceRecordsReturnsZeroCounts ==
    (pc \notin {"start", "sensed"} /\ Len(sense_data) > 0 /\ Len(clean_data) = 0) =>
        /\ Returned
        /\ Len(true_positive) = 0 /\ Len(false_positive) = 0 /\ Len(false_negative) = 0

----------------------------------------------------------------------------
(* C9 *)

\* three digits stand at positions q, q + 1, q + 2 of s
DigitsAt(s, q) ==
    /\ q \in 1..(Len(s) - 2)
    /\ \A d \in 0..2 : s[q + d] \in {"0", "1", "2", "3", "4", "5", "6", "7", "8", "9"}

\* P holds the starts of the non-overlapping runs of 3 digits of s, taken from
\* the left: runs of 3 digits, no two overlapping, and every other place where 3
\* digits stand is overlapped by a run of P that starts before it
RunStarts(s, P) ==
    /\ \A q \in P : DigitsAt(s, q)
    /\ \A q, r \in P : q < r => q + 3 <= r
    /\ \A q \in 1..Len(s) :
           (DigitsAt(s, q) /\ q \notin P) => \E r \in P : r < q /\ q < r + 3

\* the k-th smallest element of P
Nth(P, k) == CHOOSE q \in P : Cardinality({r \in P : r <= q}) = k

\* C9: get_elevator_records yields, for one maintenance record, one record
\* per non-overlapping run of 3 digits of its location, in order of
\* occurrence, each equal to the source record but for the elevator, which is
\* that run; with no run it yields nothing; "Elevators 101 and 102" yields
\* the elevators "101" and "102".
C9_OneRecordPerThreeDigitRun ==
    pc = "exploded" =>
        LET source == make_clean_record(clean_rows[1], 1)
            s == clean_rows[1].address
        IN  /\ \E P \in SUBSET {q \in 1..Len(s) : DigitsAt(s, q)} :
                   /\ RunStarts(s, P)
                   /\ Len(yielded) = Cardinality(P)
                   /\ \A k \in 1..Len(yielded) :
                          /\ yielded[k].elevator = SubSeq(s, Nth(P, k), Nth(P, k) + 2)
                          /\ [yielded[k] EXCEPT !.elevator = <<>>, !.k = 0] = source
            /\ (\A q \in 1..Len(s) : ~DigitsAt(s, q)) => yielded = <<>>
            /\ s = ElevatorsExample =>
                   [k \in 1..Len(yielded) |-> yielded[k].elevator]
                       = <<(<<"1", "0", "1">>), (<<"1", "0", "2">>)>>

\* the explode step has run on "Elevators 101 and 102" and yielded two records
C9_Witness ==
    /\ pc = "exploded"
    /\ clean_rows[1].address = ElevatorsExample
    /\ Len(yielded) = 2

----------------------------------------------------------------------------
(* C10 *)

\* the zone key or the elevator key of the alert is absent from clean_dict
KeyAbsent(alert) ==
    \/ \A i \in 1..Len(clean_dict) : clean_dict[i].key # alert.zone
    \/ \E i \in 1..Len(clean_dict) :
           /\ clean_dict[i].key = alert.zone
           /\ \A j \in 1..Len(clean_dict[i].val) : clean_dict[i].val[j].key # alert.elevator

\* C10: the pass of the loop of main over an alert whose zone key or elevator
\* key is absent from the maintenance buckets appends that alert to
\* false_positive, raises nothing, and leaves the pairs, the has_alert flags
\* and the false negatives as they were.
C10_AbsentKeyIsFalsePositive ==
    [][(/\ pc = "correlate"
        /\ cursor < Len(BucketedAlerts)
        /\ KeyAbsent(BucketedAlerts[cursor + 1])) =>
           /\ pc' = "correlate"
           /\ cursor' = cursor + 1
           /\ false_positive' = Append(false_positive, BucketedAlerts[cursor + 1])
           /\ true_positive' = true_positive
           /\ has_alert' = has_alert
           /\ false_negative' = false_negative]_vars

\* a run in which an alert of one bucket was paired and an alert whose zone
\* key or elevator key is absent became a false positive
C10_Witness ==
    /\ Correlated
    /\ true_positive # <<>>
    /\ \E i \in 1..Len(false_positive) : KeyAbsent(false_positive[i])

----------------------------------------------------------------------------
(* C11 *)

\* the alerts whose scan is over: the first `cursor` of the loop's order
Scanned ==
    IF pc = "correlate" \/ Correlated
    THEN {BucketedAlerts[n] : n \in 1..cursor}
    ELSE {}

\* the records of the alert's bucket with 0 <= delta <= 3600
InWindowOf(alert) ==
    LET b == Bucket(alert.zone, alert.elevator)
    IN  {b[j] : j \in {k \in 1..Len(b) : /\ Delta(b[k], alert) >= 0
                                         /\ Delta(b[k], alert) <= HourSeconds}}

\* C11: once the scan for an alert is over, every maintenance record of its
\* bucket with 0 <= delta <= 3600 s has has_alert set, the first and the
\* later ones alike, and the alert has at most one true-positive pair however
\* many records lie in its window; after the run none of these records is in
\* metrics.false_negative.
C11_EveryRecordInWindowFlagged ==
    \A alert \in Scanned :
        /\ \A clean_record \in InWindowOf(alert) :
               /\ has_alert[Obj(clean_record)]
               /\ ~InFalseNegative(clean_record)
        /\ Cardinality(PairsOf(alert)) <= 1

\* a finished run in which the window of a scanned alert held two or more
\* records, all flagged, and the alert has its one pair
C11_Witness ==
    /\ Correlated
    /\ \E alert \in Scanned :
           /\ Cardinality(InWindowOf(alert)) >= 2
           /\ \A clean_record \in InWindowOf(alert) :
                  has_alert[Obj(clean_record)]
           /\ Cardinality(PairsOf(alert)) = 1

====
